---- MODULE Spec2Model ----
(***************************************************************************)
(* Model of script.js: a task list kept under one localStorage key and     *)
(* re-rendered into the DOM after every operation.                         *)
(*                                                                         *)
(* Strings are made of UTF-16 code units, the unit String.prototype.length *)
(* counts.  The storage slot is the value localStorage holds under         *)
(* STORAGE_KEY, classified by what JSON.parse makes of it.                 *)
(***************************************************************************)
EXTENDS Integers, Sequences, FiniteSets, TLC

\* ---------------------------------------------------------------- bounds
MaxTasks == 2          \* addTask is not offered beyond this many elements
MaxTicks == 1          \* how far the clock may advance past Clock0
Clock0 == 1000000000   \* first Date.now() reading of the session (ms)

\* ------------------------------------------------------ program constants
MaxLen == 200

\* ----------------------------------------------------------------- strings
Digit36 ==
  << "0","1","2","3","4","5","6","7","8","9","a","b","c","d","e","f","g","h",
     "i","j","k","l","m","n","o","p","q","r","s","t","u","v","w","x","y","z" >>

\* A text typed by the user is kept as its runs of equal code units:
\* << [c |-> "a", n |-> 200] >> is "a" repeated 200 times.  Ids are plain
\* sequences of one-character strings.
Run(c, n) == [c |-> c, n |-> n]

\* String.prototype.length
RECURSIVE Length(_)
Length(s) == IF s = <<>> THEN 0 ELSE Head(s).n + Length(Tail(s))

IsWhite(c) == c = " "

RECURSIVE TrimStart(_)
TrimStart(s) ==
  IF s = <<>> THEN <<>>
  ELSE IF IsWhite(Head(s).c) THEN TrimStart(Tail(s)) ELSE s

RECURSIVE TrimEnd(_)
TrimEnd(s) ==
  IF s = <<>> THEN <<>>
  ELSE IF IsWhite(s[Len(s)].c) THEN TrimEnd(SubSeq(s, 1, Len(s) - 1)) ELSE s

\* String.prototype.trim
Trim(s) == TrimEnd(TrimStart(s))

\* Number.prototype.toString(36) on a non-negative integer
RECURSIVE ToString36(_)
ToString36(n) ==
  IF n < 36 THEN << Digit36[n + 1] >>
  ELSE ToString36(n \div 36) \o << Digit36[(n % 36) + 1] >>

\* Math.random() is modelled as num / RandDenom with num drawn from
\* RandomValues; 0 is a value Math.random() may return.
RandDenom == 36 * 36
RandomValues == {0, 37}

RECURSIVE FracDigits36(_)
FracDigits36(num) ==
  IF num = 0 THEN <<>>
  ELSE << Digit36[((num * 36) \div RandDenom) + 1] >>
         \o FracDigits36((num * 36) % RandDenom)

\* Number.prototype.toString(36) on a value of [0, 1)
FracToString36(num) ==
  IF num = 0 THEN << "0" >> ELSE << "0", "." >> \o FracDigits36(num)

\* String.prototype.substring(2)
Substring2(s) == SubSeq(s, 3, Len(s))

generateId_noRandom(t, num) == ToString36(t)

generateId(t, num) == ToString36(t) \o Substring2(FracToString36(num))

\* --------------------------------------------------------------- elements
Task(id, text, completed, createdAt) ==
  [kind |-> "task", id |-> id, text |-> text, completed |-> completed,
   createdAt |-> createdAt]

\* the JSON value null as an array element
NullElem ==
  [kind |-> "null", id |-> <<>>, text |-> <<>>, completed |-> FALSE,
   createdAt |-> 0]

HasNull(tasks) == \E i \in DOMAIN tasks : tasks[i].kind = "null"

\* index of the first null element, 0 when there is none
FirstNull(tasks) ==
  IF HasNull(tasks)
  THEN CHOOSE i \in DOMAIN tasks :
         /\ tasks[i].kind = "null"
         /\ \A j \in 1..(i - 1) : tasks[j].kind # "null"
  ELSE 0

\* ------------------------------------------------------------ storage slot
SlotAbsent == [kind |-> "absent", val |-> <<>>]      \* getItem gives null
SlotEmptyStr == [kind |-> "empty", val |-> <<>>]     \* the string ""
SlotGarbage == [kind |-> "garbage", val |-> <<>>]    \* JSON.parse throws
SlotNonArray == [kind |-> "nonarray", val |-> <<>>]  \* e.g. "{}" or "5"

\* JSON.stringify of an array
JSONstringify(tasks) == [kind |-> "array", val |-> tasks]

\* JSON.parse of a non-empty string
JSONparse(s) ==
  CASE s.kind = "garbage" -> [threw |-> TRUE, isArray |-> FALSE, val |-> <<>>]
    [] s.kind = "nonarray" -> [threw |-> FALSE, isArray |-> FALSE, val |-> <<>>]
    [] OTHER -> [threw |-> FALSE, isArray |-> TRUE, val |-> s.val]

\* loadTasks: the array it returns and the number of console.error calls
loadTasks(s, available) ==
  IF ~available THEN [tasks |-> <<>>, logs |-> 1]
  ELSE IF s.kind \in {"absent", "empty"} THEN [tasks |-> <<>>, logs |-> 0]
  ELSE LET p == JSONparse(s) IN
       IF p.threw THEN [tasks |-> <<>>, logs |-> 1]
       ELSE IF p.isArray THEN [tasks |-> p.val, logs |-> 0]
       ELSE [tasks |-> <<>>, logs |-> 0]

\* what one call of localStorage.setItem may do
SaveOutcomes(available) ==
  IF available THEN {"ok", "QuotaExceededError", "other"} ELSE {"other"}

AlertEmpty == "alert:empty"
AlertTooLong == "alert:tooLong"
AlertQuota == "alert:quota"
AlertNoStorage == "alert:noStorage"

saveTasks_silentQuota(tasks, outcome, s) ==
  CASE outcome = "ok" -> [slot |-> JSONstringify(tasks), notices |-> <<>>, logs |-> 0]
    [] outcome = "QuotaExceededError" -> [slot |-> s, notices |-> <<>>, logs |-> 1]
    [] OTHER -> [slot |-> s, notices |-> <<>>, logs |-> 1]

\* saveTasks: the slot afterwards, the alerts shown, the console.error calls
saveTasks(tasks, outcome, s) ==
  CASE outcome = "ok" -> [slot |-> JSONstringify(tasks), notices |-> <<>>, logs |-> 0]
    [] outcome = "QuotaExceededError" ->
         [slot |-> s, notices |-> << AlertQuota >>, logs |-> 0]
    [] OTHER -> [slot |-> s, notices |-> <<>>, logs |-> 1]

\* ---------------------------------------------------------------- renderer
NoView == [list |-> <<>>, placeholder |-> FALSE, stats |-> <<>>]

\* the row renderTaskItem builds for a task object
Row(task) == [id |-> task.id, text |-> task.text, completed |-> task.completed]

Rows(tasks) == [i \in DOMAIN tasks |-> Row(tasks[i])]

CountCompleted(tasks) ==
  Cardinality({i \in DOMAIN tasks : tasks[i].completed})

\* updateStats: the three counters; t.completed on null throws a TypeError
updateStats(s, available) ==
  LET L == loadTasks(s, available)
      totalTasks == Len(L.tasks)
      completedTasks == CountCompleted(L.tasks)
  IN IF HasNull(L.tasks)
     THEN [threw |-> TRUE, stats |-> <<>>, logs |-> L.logs]
     ELSE [threw |-> FALSE,
           stats |-> << totalTasks, completedTasks, totalTasks - completedTasks >>,
           logs |-> L.logs]

\* renderTasks: the list is cleared, then rows are appended one by one;
\* renderTaskItem(null) throws a TypeError at task.completed, which leaves
\* the rows built so far and the old counters.
renderTasks(s, available, v) ==
  LET L == loadTasks(s, available)
      k == FirstNull(L.tasks)
      U == updateStats(s, available)
  IN IF Len(L.tasks) = 0
     THEN [threw |-> U.threw,
           view |-> [list |-> <<>>, placeholder |-> TRUE,
                     stats |-> IF U.threw THEN v.stats ELSE U.stats],
           logs |-> L.logs + U.logs]
     ELSE IF k # 0
     THEN [threw |-> TRUE,
           view |-> [list |-> Rows(SubSeq(L.tasks, 1, k - 1)),
                     placeholder |-> FALSE, stats |-> v.stats],
           logs |-> L.logs]
     ELSE [threw |-> U.threw,
           view |-> [list |-> Rows(L.tasks), placeholder |-> FALSE,
                     stats |-> IF U.threw THEN v.stats ELSE U.stats],
           logs |-> L.logs + U.logs]

\* ------------------------------------------------------------- operations
validate_offByOne(trimmedText) ==
  IF trimmedText = <<>> THEN AlertEmpty
  ELSE IF Length(trimmedText) >= MaxLen THEN AlertTooLong
  ELSE "ok"

\* the two checks at the head of addTask
validate(trimmedText) ==
  IF trimmedText = <<>> THEN AlertEmpty
  ELSE IF Length(trimmedText) > MaxLen THEN AlertTooLong
  ELSE "ok"

newTaskText_untrimmed(taskText) == taskText

\* the text stored in the new task
newTaskText(taskText) == Trim(taskText)

inputAfterAdd_onSavedOnly(taskText, renderThrew, outcome) ==
  IF renderThrew \/ outcome # "ok" THEN taskText ELSE <<>>

\* taskInput.value after the tail of addTask: the assignment is reached
\* whenever renderTasks returns, whatever saveTasks met
inputAfterAdd(taskText, renderThrew, outcome) ==
  IF renderThrew THEN taskText ELSE <<>>

\* addTask(taskText) with the clock at t (both Date.now() calls of one run
\* fall in the same millisecond), Math.random() giving num/RandDenom and
\* setItem ending in outcome
addTask(taskText, s, available, v, t, num, outcome) ==
  LET trimmedText == Trim(taskText)
      verdict == validate(trimmedText)
      newTask == Task(generateId(t, num), newTaskText(taskText), FALSE, t)
      L == loadTasks(s, available)
      tasks == Append(L.tasks, newTask)
      S == saveTasks(tasks, outcome, s)
      R == renderTasks(S.slot, available, v)
  IN IF verdict # "ok"
     THEN [slot |-> s, view |-> v, input |-> taskText,
           notices |-> << verdict >>, logs |-> 0, threw |-> FALSE,
           save |-> "none", loaded |-> <<>>, attempt |-> <<>>]
     ELSE [slot |-> S.slot, view |-> R.view,
           input |-> inputAfterAdd(taskText, R.threw, outcome),
           notices |-> S.notices, logs |-> L.logs + S.logs + R.logs,
           threw |-> R.threw, save |-> outcome, loaded |-> << L.tasks >>,
           attempt |-> tasks]

\* Array.prototype.find with t => t.id === taskId: the index of the first
\* match, 0 for none; -1 when the callback reaches a null element first
\* (null.id throws a TypeError)
FindIndex(tasks, taskId) ==
  LET hits == {i \in DOMAIN tasks : tasks[i].kind = "task" /\ tasks[i].id = taskId}
      first == IF hits = {} THEN 0
               ELSE CHOOSE i \in hits : \A j \in hits : i <= j
      k == FirstNull(tasks)
  IN IF k # 0 /\ (first = 0 \/ k < first) THEN -1 ELSE first

flip_setTrue(tasks, i) == [tasks EXCEPT ![i].completed = TRUE]

\* task.completed = !task.completed
flip(tasks, i) == [tasks EXCEPT ![i].completed = ~@]

toggleTask_alwaysSave(taskId, s, available, v, outcome) ==
  LET L == loadTasks(s, available)
      i == FindIndex(L.tasks, taskId)
      tasks == IF i > 0 THEN flip(L.tasks, i) ELSE L.tasks
      S == saveTasks(tasks, outcome, s)
      R == renderTasks(S.slot, available, v)
  IN IF i = -1
     THEN [slot |-> s, view |-> v, notices |-> <<>>, logs |-> L.logs,
           threw |-> TRUE, save |-> "none", loaded |-> << L.tasks >>,
           attempt |-> <<>>]
     ELSE [slot |-> S.slot, view |-> R.view, notices |-> S.notices,
           logs |-> L.logs + S.logs + R.logs, threw |-> R.threw,
           save |-> outcome, loaded |-> << L.tasks >>, attempt |-> tasks]

\* toggleTask(taskId)
toggleTask(taskId, s, available, v, outcome) ==
  LET L == loadTasks(s, available)
      i == FindIndex(L.tasks, taskId)
      tasks == IF i > 0 THEN flip(L.tasks, i) ELSE L.tasks
      S == saveTasks(tasks, outcome, s)
      R == renderTasks(S.slot, available, v)
  IN IF i = -1
     THEN [slot |-> s, view |-> v, notices |-> <<>>, logs |-> L.logs,
           threw |-> TRUE, save |-> "none", loaded |-> << L.tasks >>,
           attempt |-> <<>>]
     ELSE IF i = 0
     THEN [slot |-> s, view |-> v, notices |-> <<>>, logs |-> L.logs,
           threw |-> FALSE, save |-> "none", loaded |-> << L.tasks >>,
           attempt |-> <<>>]
     ELSE [slot |-> S.slot, view |-> R.view, notices |-> S.notices,
           logs |-> L.logs + S.logs + R.logs, threw |-> R.threw,
           save |-> outcome, loaded |-> << L.tasks >>, attempt |-> tasks]

RECURSIVE filterOut_firstOnly(_, _)
filterOut_firstOnly(tasks, taskId) ==
  IF tasks = <<>> THEN <<>>
  ELSE IF Head(tasks).id = taskId THEN Tail(tasks)
  ELSE << Head(tasks) >> \o filterOut_firstOnly(Tail(tasks), taskId)

\* tasks.filter(t => t.id !== taskId), on an array without null
RECURSIVE filterOut(_, _)
filterOut(tasks, taskId) ==
  IF tasks = <<>> THEN <<>>
  ELSE IF Head(tasks).id # taskId
       THEN << Head(tasks) >> \o filterOut(Tail(tasks), taskId)
       ELSE filterOut(Tail(tasks), taskId)

\* deleteTask(taskId): the filter callback throws a TypeError on null
deleteTask(taskId, s, available, v, outcome) ==
  LET L == loadTasks(s, available)
      filteredTasks == filterOut(L.tasks, taskId)
      S == saveTasks(filteredTasks, outcome, s)
      R == renderTasks(S.slot, available, v)
  IN IF HasNull(L.tasks)
     THEN [slot |-> s, view |-> v, notices |-> <<>>, logs |-> L.logs,
           threw |-> TRUE, save |-> "none", loaded |-> << L.tasks >>,
           attempt |-> <<>>]
     ELSE [slot |-> S.slot, view |-> R.view, notices |-> S.notices,
           logs |-> L.logs + S.logs + R.logs, threw |-> R.threw,
           save |-> outcome, loaded |-> << L.tasks >>, attempt |-> filteredTasks]

\* init(): the warning, the first render, then the two listeners of the
\* add control, which are bound only if renderTasks returned
init(s, available, v) ==
  LET L == loadTasks(s, available)
      R == renderTasks(s, available, v)
  IN [view |-> R.view, bound |-> ~R.threw,
      notices |-> IF available THEN <<>> ELSE << AlertNoStorage >>,
      logs |-> R.logs, threw |-> R.threw, loaded |-> << L.tasks >>]

\* ------------------------------------------------------------------- state
VARIABLES
  pc,       \* "start" before DOMContentLoaded, "ready" after init ran
  avail,    \* whether the Storage API exists in this browser
  slot,     \* the value stored under STORAGE_KEY
  view,     \* the DOM: rows of #taskList, the placeholder, the three counters
  input,    \* taskInput.value as the last handler left it
  bound,    \* whether init got as far as binding the add listeners
  now,      \* Date.now()
  last,     \* record of the most recent handler run (history)
  drawn,    \* random values generateId drew at the current clock reading
  redrawn   \* whether generateId met the same reading and value twice

vars == << pc, avail, slot, view, input, bound, now, last, drawn, redrawn >>

\* a task left by an earlier session
OldTask(num, completed) ==
  Task(generateId(Clock0 - 1, num), << Run("a", 1) >>, completed, Clock0 - 1)

\* the id of a row whose task is no longer stored
StaleId == generateId(Clock0 - 2, 0)

InitSlots ==
  { SlotAbsent, SlotEmptyStr, SlotGarbage, SlotNonArray,
    JSONstringify(<<>>),
    JSONstringify(<< OldTask(0, TRUE) >>),
    JSONstringify(<< NullElem >>),
    JSONstringify(<< OldTask(0, FALSE), NullElem >>),
    JSONstringify(<< NullElem, OldTask(0, FALSE) >>) }

EmptySlots == { SlotAbsent, JSONstringify(<<>>) }

\* what the user may have in the text field when the add control fires
Inputs ==
  { <<>>,
    << Run(" ", 2) >>,
    << Run(" ", 1), Run("a", MaxLen), Run(" ", 1) >>,
    << Run("a", MaxLen + 1) >> }

NoPrior == [op |-> "none", arg |-> <<>>, pre |-> SlotAbsent, save |-> "none"]

NoOp == [op |-> "none", arg |-> <<>>, pre |-> SlotAbsent, at |-> 0,
         save |-> "none", notices |-> <<>>, logs |-> 0, threw |-> FALSE,
         loadedLen |-> -1, prior |-> NoPrior]

\* what a toggle that was saved remembers of the saved toggle of the same
\* id that ran just before it
Prior(op, arg, res) ==
  IF /\ op = "toggle" /\ res.save = "ok"
     /\ last.op = "toggle" /\ last.save = "ok" /\ last.arg = arg
  THEN [op |-> last.op, arg |-> last.arg, pre |-> last.pre, save |-> last.save]
  ELSE NoPrior

Record(op, arg, res) ==
  [op |-> op, arg |-> arg, pre |-> slot, at |-> now,
   save |-> res.save, notices |-> res.notices, logs |-> res.logs,
   threw |-> res.threw,
   loadedLen |-> IF res.loaded = <<>> THEN -1 ELSE Len(res.loaded[1]),
   prior |-> Prior(op, arg, res)]

InitCommon ==
  /\ pc = "start"
  /\ view = NoView
  /\ input = <<>>
  /\ bound = FALSE
  /\ now = Clock0
  /\ last = NoOp
  /\ drawn = {}
  /\ redrawn = FALSE

Init ==
  /\ InitCommon
  /\ avail \in BOOLEAN
  /\ slot \in (IF avail THEN InitSlots ELSE { SlotAbsent })

InitEmpty ==
  /\ InitCommon
  /\ avail = TRUE
  /\ slot \in EmptySlots

\* DOMContentLoaded
InitApp ==
  /\ pc = "start"
  /\ LET res == init(slot, avail, view) IN
       /\ view' = res.view
       /\ bound' = res.bound
       /\ last' = [NoOp EXCEPT !.op = "init", !.pre = slot, !.at = now,
                               !.notices = res.notices, !.logs = res.logs,
                               !.threw = res.threw,
                               !.loadedLen = Len(res.loaded[1])]
  /\ pc' = "ready"
  /\ UNCHANGED << avail, slot, input, now, drawn, redrawn >>

\* the inputs addTask reads besides its argument: the random value and
\* the fate of setItem; neither is read when validation rejects the text
AddChoices(taskText) ==
  IF validate(Trim(taskText)) # "ok"
  THEN { << 0, "ok" >> }
  ELSE RandomValues \X SaveOutcomes(avail)

\* click on addButton, or Enter in taskInput, with taskText in the field
AddTask ==
  /\ pc = "ready"
  /\ bound
  /\ Len(loadTasks(slot, avail).tasks) < MaxTasks
  /\ \E taskText \in Inputs :
       \E c \in AddChoices(taskText) :
         \E res \in { addTask(taskText, slot, avail, view, now, c[1], c[2]) } :
           /\ slot' = res.slot
           /\ view' = res.view
           /\ input' = res.input
           /\ last' = Record("add", taskText, res)
           /\ IF res.save = "none"
              THEN UNCHANGED << drawn, redrawn >>
              ELSE /\ drawn' = drawn \cup { c[1] }
                   /\ redrawn' = (redrawn \/ c[1] \in drawn)
  /\ UNCHANGED << pc, avail, bound, now >>

\* the ids a checkbox or delete button may carry: those of the rows on
\* display, and that of a row whose task is stored no more
RowIds == { view.list[i].id : i \in DOMAIN view.list } \cup { StaleId }

\* change event of the checkbox of a row
ToggleTask ==
  /\ pc = "ready"
  /\ \E taskId \in RowIds, outcome \in SaveOutcomes(avail) :
       \E res \in { toggleTask(taskId, slot, avail, view, outcome) } :
         /\ slot' = res.slot
         /\ view' = res.view
         /\ last' = Record("toggle", taskId, res)
  /\ UNCHANGED << pc, avail, input, bound, now, drawn, redrawn >>

\* click on the delete button of a row
DeleteTask ==
  /\ pc = "ready"
  /\ \E taskId \in RowIds, outcome \in SaveOutcomes(avail) :
       \E res \in { deleteTask(taskId, slot, avail, view, outcome) } :
         /\ slot' = res.slot
         /\ view' = res.view
         /\ last' = Record("delete", taskId, res)
  /\ UNCHANGED << pc, avail, input, bound, now, drawn, redrawn >>

\* time passes between two events
Tick ==
  /\ now < Clock0 + MaxTicks
  /\ now' = now + 1
  /\ drawn' = {}
  /\ UNCHANGED << pc, avail, slot, view, input, bound, last, redrawn >>

Next == InitApp \/ AddTask \/ ToggleTask \/ DeleteTask \/ Tick

Spec == Init /\ [][Next]_vars

\* starting from an empty or absent collection
SpecEmpty == InitEmpty /\ [][Next]_vars

\* ------------------------------------------------- vocabulary of the claims
\* the collection persisted in a slot: the array it holds, if it holds one
Stored(s) == IF s.kind = "array" THEN s.val ELSE <<>>

\* the slot holding exactly the collection c
Holding(c) == [kind |-> "array", val |-> c]

AllTasks(c) == \A i \in DOMAIN c : c[i].kind = "task"

\* a well-formed collection of tasks is persisted in s
WellFormedSlot(s) == s.kind = "array" /\ AllTasks(s.val)

IdsOf(c) == { c[i].id : i \in { j \in DOMAIN c : c[j].kind = "task" } }

DistinctIds(c) ==
  \A i, j \in DOMAIN c :
    (i # j /\ c[i].kind = "task" /\ c[j].kind = "task") => c[i].id # c[j].id

IsPrefix(p, q) == Len(p) <= Len(q) /\ SubSeq(q, 1, Len(p)) = p

\* s without its leading and trailing whitespace, stated by position
TrimBounds(s) ==
  CHOOSE b \in (1..(Len(s) + 1)) \X (0..Len(s)) :
    /\ \A k \in 1..(b[1] - 1) : s[k].c = " "
    /\ \A k \in (b[2] + 1)..Len(s) : s[k].c = " "
    /\ (b[1] <= b[2]) => (s[b[1]].c # " " /\ s[b[2]].c # " ")
    /\ (b[1] > b[2]) => (b[1] = 1 /\ b[2] = 0)

Trimmed(s) == SubSeq(s, TrimBounds(s)[1], TrimBounds(s)[2])

TrimmedLength(s) == Length(Trimmed(s))

Acceptable(s) == TrimmedLength(s) >= 1 /\ TrimmedLength(s) <= MaxLen

\* the field was emptied by the last run of addTask
Cleared == last.op = "add" /\ last.arg # <<>> /\ input = <<>>

\* the rows and counters a complete render of collection c shows
RowsShown(c) ==
  [i \in DOMAIN c |-> [id |-> c[i].id, text |-> c[i].text,
                       completed |-> c[i].completed]]

StatsShown(c) ==
  LET done == Cardinality({i \in DOMAIN c : c[i].completed})
  IN << Len(c), done, Len(c) - done >>

\* the elements of c before its first element that is no task
TaskPrefix(c) ==
  LET bad == {i \in DOMAIN c : c[i].kind # "task"}
  IN IF bad = {} THEN c
     ELSE SubSeq(c, 1, (CHOOSE i \in bad : \A j \in bad : i <= j) - 1)

\* index of the first task of c with the given id (c holds one)
FirstWith(c, id) ==
  CHOOSE i \in DOMAIN c :
    /\ c[i].kind = "task" /\ c[i].id = id
    /\ \A j \in 1..(i - 1) : ~(c[j].kind = "task" /\ c[j].id = id)

\* ------------------------------------------------------------------ claims

C2_Rejects ==
  /\ AlertEmpty # AlertTooLong
  /\ (last.op = "add" /\ TrimmedLength(last.arg) = 0) =>
       (slot = last.pre /\ last.save = "none" /\ last.notices = << AlertEmpty >>)
  /\ (last.op = "add" /\ TrimmedLength(last.arg) > MaxLen) =>
       (slot = last.pre /\ last.save = "none" /\ last.notices = << AlertTooLong >>)
  /\ (last.op = "add" /\ TrimmedLength(last.arg) = MaxLen) =>
       (last.save # "none" /\ \A k \in DOMAIN last.notices :
                                 last.notices[k] \notin { AlertEmpty, AlertTooLong })

\* C2 witness: a text of MaxLen + 1 code units was rejected while a task
\* was stored.
C2_Witness ==
  /\ last.op = "add"
  /\ TrimmedLength(last.arg) = MaxLen + 1
  /\ last.notices = << AlertTooLong >>
  /\ Len(Stored(slot)) >= 1

C4_Toggle ==
  /\ ( /\ last.op = "toggle"
       /\ WellFormedSlot(last.pre)
       /\ last.arg \in IdsOf(Stored(last.pre)) ) =>
       /\ last.save # "none"
       /\ (last.save = "ok") =>
            LET C == Stored(last.pre)
                N == Stored(slot)
                k == FirstWith(C, last.arg)
            IN /\ slot.kind = "array"
               /\ Len(N) = Len(C)
               /\ \A i \in DOMAIN C : i # k => N[i] = C[i]
               /\ N[k].completed = ~C[k].completed
               /\ N[k].id = C[k].id
               /\ N[k].text = C[k].text
               /\ N[k].createdAt = C[k].createdAt
               /\ N[k].kind = C[k].kind
  /\ ( /\ last.op = "toggle" /\ last.save = "ok"
       /\ last.prior.op = "toggle" /\ last.prior.save = "ok"
       /\ last.prior.arg = last.arg
       /\ WellFormedSlot(last.prior.pre)
       /\ last.arg \in IdsOf(Stored(last.prior.pre)) ) =>
       slot = last.prior.pre

\* C4 witness: the same id was toggled twice in a row, both saved, in a
\* collection of two tasks.
C4_Witness ==
  /\ last.op = "toggle" /\ last.save = "ok"
  /\ last.prior.op = "toggle"
  /\ WellFormedSlot(last.prior.pre)
  /\ Len(Stored(last.prior.pre)) = 2
  /\ last.arg \in IdsOf(Stored(last.prior.pre))

\* C5: after deleteTask with a successful save the persisted collection is
\* the previous one without the tasks of that id, the others unchanged and
\* in their order.
C5_Delete ==
  (last.op = "delete" /\ AllTasks(Stored(last.pre))) =>
    /\ last.save # "none"
    /\ (last.save = "ok") =>
         LET Keep(t) == t.id # last.arg
         IN slot = Holding(SelectSeq(Stored(last.pre), Keep))

\* C5 witness: one of two stored tasks was deleted and the other kept.
C5_Witness ==
  /\ last.op = "delete" /\ last.save = "ok"
  /\ AllTasks(Stored(last.pre))
  /\ Len(Stored(last.pre)) = 2
  /\ Len(Stored(slot)) = 1

\* C6 as stated: loadTasks returns the empty collection whenever the slot
\* does not hold a well-formed collection of tasks.
C6_LoadEmptyOnMalformed ==
  (last.loadedLen >= 0 /\ ~WellFormedSlot(last.pre)) => last.loadedLen = 0

\* C7 as stated: no handler run ends in an uncaught exception.
C7_NoUncaught == ~last.threw

\* C8 as stated: when setItem is rejected for lack of capacity, the user is
\* alerted, the slot keeps its value and the display shows the effect of
\* the operation.
C8_Original ==
  ( /\ last.op \in {"add", "toggle", "delete"}
    /\ last.save = "QuotaExceededError"
    /\ AllTasks(Stored(last.pre)) ) =>
    /\ AlertQuota \in { last.notices[k] : k \in DOMAIN last.notices }
    /\ slot = last.pre
    /\ CASE last.op = "add" -> Len(view.list) = Len(Stored(last.pre)) + 1
         [] last.op = "toggle" ->
              LET k == FirstWith(Stored(last.pre), last.arg)
              IN view.list[k].completed = ~Stored(last.pre)[k].completed
         [] OTHER ->
              \A i \in DOMAIN view.list : view.list[i].id # last.arg

\* C8 amended: when setItem is rejected for lack of capacity, the user is
\* alerted, the slot keeps its value, and the list is rebuilt from the
\* slot, so that it does not show the effect of the operation: its rows are
\* those of the stored tasks (up to the first element that is no task), and
\* the counters are those of the stored collection when all are tasks.
C8_QuotaKeepsStored ==
  ( /\ last.op \in {"add", "toggle", "delete"}
    /\ last.save = "QuotaExceededError" ) =>
    /\ AlertQuota \in { last.notices[k] : k \in DOMAIN last.notices }
    /\ slot = last.pre
    /\ view.list = RowsShown(TaskPrefix(Stored(slot)))
    /\ AllTasks(Stored(slot)) => view.stats = StatsShown(Stored(slot))

\* C8 witness: an addTask met the capacity error while one task was stored.
C8_Witness ==
  /\ last.op = "add"
  /\ last.save = "QuotaExceededError"
  /\ Len(Stored(last.pre)) = 1
  /\ Len(view.list) = 1

\* C9 as stated: after addTask the field has been cleared exactly when the
\* task was validated and persisted; otherwise it keeps its value.
C9_Original ==
  (last.op = "add") =>
    /\ Cleared <=> (last.save = "ok")
    /\ ~Cleared => input = last.arg

\* C9 amended: after addTask the field has been cleared exactly when the
\* text passed validation and the re-render returned, whether or not the
\* save succeeded; otherwise it keeps its value.
C9_ClearedWhenValid ==
  (last.op = "add") =>
    /\ Cleared <=> (Acceptable(last.arg) /\ ~last.threw)
    /\ ~Cleared => input = last.arg

\* C9 witness: an addTask whose save met the capacity error emptied the
\* field.
C9_Witness ==
  /\ last.op = "add"
  /\ last.save = "QuotaExceededError"
  /\ input = <<>>

\* C10 as stated: toggleTask and deleteTask of an id that the stored
\* collection does not hold leave the slot as it was and raise no notice.
C10_Original ==
  ( /\ last.op \in {"toggle", "delete"}
    /\ last.arg \notin IdsOf(Stored(last.pre)) ) =>
    (slot = last.pre /\ last.notices = <<>>)

\* C10 amended: toggleTask of an id that the stored collection does not
\* hold writes nothing and raises no notice.  deleteTask of such an id
\* saves the loaded collection unless an element that is no task makes it
\* throw first: a successful save leaves the slot holding the loaded
\* collection (the empty one if the slot held no array), a rejected save
\* leaves the slot as it was, and the capacity error raises its notice.
C10_AbsentId ==
  /\ ( /\ last.op = "toggle"
       /\ last.arg \notin IdsOf(Stored(last.pre)) ) =>
       (slot = last.pre /\ last.notices = <<>> /\ last.save = "none")
  /\ ( /\ last.op = "delete"
       /\ last.arg \notin IdsOf(Stored(last.pre)) ) =>
       /\ (last.save = "none") <=> ~AllTasks(Stored(last.pre))
       /\ (last.save = "ok") => slot = Holding(Stored(last.pre))
       /\ (last.save # "ok") => slot = last.pre
       /\ last.notices = IF last.save = "QuotaExceededError"
                         THEN << AlertQuota >> ELSE <<>>

\* C10 witness: deleteTask of an id not stored replaced an unparseable
\* value by the empty collection.
C10_Witness ==
  /\ last.op = "delete"
  /\ last.save = "ok"
  /\ last.pre.kind = "garbage"
  /\ slot = Holding(<<>>)

====
